---- MODULE Spec2Model ----
(***************************************************************************)
(* Model of site/app.js: the Leaflet map viewer for pedestrian rail         *)
(* crossings.  The script issues five fetches when it is evaluated (roads,  *)
(* crossings for the popup layer, reachable lines 400m, reachable lines     *)
(* 800m, crossings for the click layer); each completes on its own later    *)
(* turn of the event loop, in any order.  A click on a marker of the click  *)
(* layer runs the selection handler; window.openTab switches the tabs of    *)
(* the side panel.  Every handler runs to completion (single thread), so    *)
(* each one is a single action.                                             *)
(***************************************************************************)
EXTENDS Integers, Sequences, FiniteSets, TLC

(***************************************************************************)
(* Bounds                                                                   *)
(***************************************************************************)
\* longest reachable-lines file of the interaction model
MaxFeatures == 2
\* longest reachable-lines file of the filter study
MaxFilterFeatures == 3
\* number of tab pages (and of tab links) in the side panel
NumTabs == 3

(***************************************************************************)
(* JavaScript values                                                        *)
(***************************************************************************)
\* the value of a property that is missing (feature.properties.name === undefined)
undefined == "<undefined>"

\* the operands that make `v || d` evaluate to d, among undefined and strings
Falsy(v) == v = undefined \/ v = ""

\* v || d
OrElse(v, d) == IF Falsy(v) THEN d ELSE v

\* a module-level `let x = null`, for a collection and for a layer reference
NullCollection == [type |-> "null", features |-> <<>>]
NullLayer == [kind |-> "null", features |-> <<>>]

\* !x for a collection variable: true of null, false of every object
Not(x) == x = NullCollection

(***************************************************************************)
(* Data files                                                               *)
(***************************************************************************)
\* data/places.geojson: a crossing with every field, one whose name differs
\* only by case and has no description, one with no name and an empty
\* description, one with an empty name and no category
Crossings ==
    { [name |-> "A", description |-> "about A", category |-> "Formal_Crossing"],
      [name |-> "a", description |-> undefined, category |-> "Informal_Crossing"],
      [name |-> undefined, description |-> "", category |-> "Under_Construction"],
      [name |-> "", description |-> "about blank", category |-> undefined] }

\* no crossing clicked yet
NoCrossing == [name |-> "<none>", description |-> "<none>", category |-> "<none>"]

\* crossing_name values of the reachable-lines files
FeatureNames == {"A", "a"}
FilterNames == {"A", "a", "A ", undefined}

\* crossings of the filter study: one per name, plus a name no line carries
FilterCrossings ==
    { [name |-> n, description |-> "d", category |-> "Formal_Crossing"] :
        n \in FilterNames \cup {"B"} }

\* a FeatureCollection whose i-th feature has crossing_name ns[i]; every
\* feature of a file has a geometry of its own
MkCollection(band, ns) ==
    [type |-> "FeatureCollection",
     features |-> [i \in 1..Len(ns) |->
                     [crossing_name |-> ns[i], geometry |-> <<band, i>>]]]

NameSeqs(names, n) == UNION { [1..k -> names] : k \in 0..n }

\* what data/reachable_lines_<band>m.geojson may hold
Collections(band) == { MkCollection(band, ns) : ns \in NameSeqs(FeatureNames, MaxFeatures) }
FilterCollections(band) ==
    { MkCollection(band, ns) : ns \in NameSeqs(FilterNames, MaxFilterFeatures) }

\* data/roadnetwork_clipped_pedestrian_default.geojson: road features carry
\* no crossing_name
RoadsData ==
    [type |-> "FeatureCollection",
     features |-> << [crossing_name |-> undefined, geometry |-> <<"road", 1>>] >>]

(***************************************************************************)
(* State                                                                    *)
(***************************************************************************)
VARIABLES
    fetchState,        \* per fetch: "pending", "fulfilled" or "rejected"
    requests,          \* per URL: number of fetches issued for it
    streetsData,       \* app.js:16
    reachable400,      \* app.js:86
    reachable800,      \* app.js:87
    reachableLayer400, \* app.js:88
    reachableLayer800, \* app.js:89
    mapLayers,         \* the layers on the map, in the order they were added
    markers,           \* per crossings layer: the circle markers it has drawn
    viewport,          \* the map's view
    infoName,          \* textContent of #info-name, as the runs of text it is made of
    infoDesc,          \* textContent of #info-desc, likewise
    console,           \* the console.error and console.warn entries
    uncaught,          \* promise chains rejected with no handler, handlers that threw
    selected,          \* the crossing the selection handler last ran for
    lastOp,            \* the kind of the last callback that ran
    openTabDefined,    \* window.openTab has been assigned
    pageDisplay,       \* style.display of each tab-page
    tabActive,         \* whether each tab-link carries the class "active"
    lastTab            \* arguments of the last openTab call

mapVars == <<fetchState, requests, markers, streetsData, reachable400, reachable800,
             reachableLayer400, reachableLayer800, mapLayers, viewport,
             infoName, infoDesc, console, uncaught, selected, lastOp>>
tabVars == <<openTabDefined, pageDisplay, tabActive, lastTab>>
vars == <<mapVars, tabVars>>

Fetches == {"roads", "crossingsPopup", "reachable400", "reachable800", "crossingsClick"}

\* the URL each fetch asks for
Url(f) ==
    CASE f = "roads" -> "data/roadnetwork_clipped_pedestrian_default.geojson"
      [] f = "crossingsPopup" -> "data/places.geojson"
      [] f = "reachable400" -> "data/reachable_lines_400m.geojson"
      [] f = "reachable800" -> "data/reachable_lines_800m.geojson"
      [] f = "crossingsClick" -> "data/places.geojson"

Urls == { Url(f) : f \in Fetches }

\* the promise chains that end in .catch(err => console.error(...))
Catches == {"roads", "crossingsPopup"}

TabPages == 1..NumTabs

(***************************************************************************)
(* The map (Leaflet)                                                        *)
(***************************************************************************)
Layer(kind, features) == [kind |-> kind, features |-> features]

\* layer.addTo(map)
AddTo(layers, layer) == Append(layers, layer)

\* index of the layer last added among those equal to `layer`, 0 if none
LastIndexOf(layers, layer) ==
    LET S == { i \in 1..Len(layers) : layers[i] = layer }
    IN  IF S = {} THEN 0 ELSE CHOOSE i \in S : \A j \in S : j <= i

\* map.removeLayer(layer): the reference is to the layer of its band that
\* was added last
RemoveLayer(layers, layer) ==
    LET k == LastIndexOf(layers, layer)
    IN  IF k = 0 THEN layers
        ELSE [i \in 1..(Len(layers) - 1) |-> IF i < k THEN layers[i] ELSE layers[i + 1]]

\* layer.getBounds(): the extent of the geometries of the layer
GetBounds(layer) == { layer.features[i].geometry : i \in 1..Len(layer.features) }

InitialView == [kind |-> "setView", bounds |-> {}]

\* map.fitBounds(bounds)
FitBounds(bounds) == [kind |-> "fitBounds", bounds |-> bounds]

OverlayKinds == {"reachable400", "reachable800"}
CrossingKinds == {"crossingsPopup", "crossingsClick"}

\* the crossing layer whose markers lie on top: both layers draw a marker at
\* every crossing, in the same pane, and the layer added last covers the other
TopCrossingLayer(layers) ==
    LET S == { i \in 1..Len(layers) : layers[i].kind \in CrossingKinds }
    IN  IF S = {} THEN "none"
        ELSE layers[CHOOSE i \in S : \A j \in S : j <= i].kind

(***************************************************************************)
(* The style of the crossing markers (app.js:44-73 and 112-128)             *)
(***************************************************************************)
\* the switch of the popup layer: `let color` stays unassigned when no case
\* matches
ColorPopup(category) ==
    CASE category = "Under_Construction" -> "#f7f793"
      [] category = "Formal_Crossing" -> "#62b955ff"
      [] category = "Informal_Crossing" -> "#82ee71ff"
      [] OTHER -> undefined

\* the colours of two cases exchanged
ColorClickSwapped(category) ==
    CASE category = "Under_Construction" -> "#f7f793"
      [] category = "Formal_Crossing" -> "#82ee71ff"
      [] category = "Informal_Crossing" -> "#62b955ff"
      [] OTHER -> undefined

\* the switch of the click layer
ColorClick(category) ==
    CASE category = "Under_Construction" -> "#f7f793"
      [] category = "Formal_Crossing" -> "#62b955ff"
      [] category = "Informal_Crossing" -> "#82ee71ff"
      [] OTHER -> undefined

\* the options handed to L.circleMarker
CircleMarkerOptions(fillColor) ==
    [radius |-> 10, fillColor |-> fillColor, color |-> "black", weight |-> 2,
     opacity |-> "0.5", fillOpacity |-> "1.0", pane |-> "markerPane"]

\* pointToLayer of the layer `kind`
PointToLayer(kind, feature) ==
    IF kind = "crossingsPopup"
    THEN CircleMarkerOptions(ColorPopup(feature.category))
    ELSE CircleMarkerOptions(ColorClick(feature.category))

\* L.geoJSON(crossings, {pointToLayer}): one marker per crossing
MarkersOf(kind, crossings) ==
    { [feature |-> c, options |-> PointToLayer(kind, c)] : c \in crossings }

(***************************************************************************)
(* The selection handler, piece by piece (app.js:133-183)                   *)
(***************************************************************************)
\* textContent = name || "Unnamed crossing"
PanelName(c) == << OrElse(c.name, "Unnamed crossing") >>

\* the description shown without its placeholder
PanelDescNoFallback(c) == << c.description >>

\* textContent = desc || "No description available."
PanelDesc(c) == << OrElse(c.description, "No description available.") >>

\* the text of the panel before any click (index.html)
MarkupText == << "<markup>" >>

\* the check written with && : a click goes on as soon as one file is loaded
NotLoadedBoth(r400, r800) == Not(r400) /\ Not(r800)

\* the check of the 400m file alone
NotLoaded400Only(r400, r800) == Not(r400)

\* if (!reachable400 || !reachable800)
NotLoaded(r400, r800) == Not(r400) \/ Not(r800)

\* the removal of the 800m overlay forgotten
RemovePreviousOnly400(layers, l400, l800) ==
    IF l400 # NullLayer THEN RemoveLayer(layers, l400) ELSE layers

\* the removal of the 400m overlay forgotten
RemovePreviousOnly800(layers, l400, l800) ==
    IF l800 # NullLayer THEN RemoveLayer(layers, l800) ELSE layers

\* if (reachableLayer400) map.removeLayer(reachableLayer400);
\* if (reachableLayer800) map.removeLayer(reachableLayer800);
RemovePrevious(layers, l400, l800) ==
    LET a == IF l400 # NullLayer THEN RemoveLayer(layers, l400) ELSE layers
    IN  IF l800 # NullLayer THEN RemoveLayer(a, l800) ELSE a

\* String.prototype.toLowerCase on the names of the data files
ToLowerCase(v) == IF v = "A" THEN "a" ELSE IF v = "A " THEN "a " ELSE v

\* the names compared without regard to case
CrossingNameIsAnyCase(f, name) == ToLowerCase(f.crossing_name) = ToLowerCase(name)

\* f => f.properties.crossing_name === name
CrossingNameIs(f, name) == f.crossing_name = name

\* features.filter(f => f.properties.crossing_name === name): the array is
\* walked from its first element and every element that passes is pushed
RECURSIVE FilterFeatures(_, _)
FilterFeatures(features, name) ==
    IF Len(features) = 0 THEN << >>
    ELSE (IF CrossingNameIs(Head(features), name) THEN << Head(features) >> ELSE << >>)
         \o FilterFeatures(Tail(features), name)

\* { ...collection, features: collection.features.filter(...) }
Filtered(collection, name) ==
    [collection EXCEPT !.features = FilterFeatures(collection.features, name)]

\* L.geoJSON(filtered, {style})
GeoJSON(kind, collection) == Layer(kind, collection.features)

\* the 400m overlay added first
DrawOverlaysNearFirst(layers, l800, l400) == AddTo(AddTo(layers, l400), l800)

\* reachableLayer800 = L.geoJSON(filtered800).addTo(map), then
\* reachableLayer400 = L.geoJSON(filtered400).addTo(map)
DrawOverlays(layers, l800, l400) == AddTo(AddTo(layers, l800), l400)

\* the 400m band tried first
FitViewportNearFirst(view, f800, f400, l800, l400) ==
    IF Len(f400.features) > 0 THEN FitBounds(GetBounds(l400))
    ELSE IF Len(f800.features) > 0 THEN FitBounds(GetBounds(l800))
    ELSE view

\* if (filtered800.features.length > 0) map.fitBounds(reachableLayer800.getBounds());
\* else if (filtered400.features.length > 0) map.fitBounds(reachableLayer400.getBounds());
FitViewport(view, f800, f400, l800, l400) ==
    IF Len(f800.features) > 0 THEN FitBounds(GetBounds(l800))
    ELSE IF Len(f400.features) > 0 THEN FitBounds(GetBounds(l400))
    ELSE view

WarnNotLoaded == << "warn", "Walkshed files not fully loaded yet." >>

\* the filter writes into the source collection
SourcesFilteredInPlace(c) ==
    /\ reachable400' = Filtered(reachable400, c.name)
    /\ reachable800' = Filtered(reachable800, c.name)
    /\ UNCHANGED streetsData

\* the handler drops the collections it has drawn from
SourcesDropped(c) ==
    /\ reachable400' = (IF NotLoaded(reachable400, reachable800)
                        THEN reachable400 ELSE NullCollection)
    /\ UNCHANGED <<reachable800, streetsData>>

\* the handler reads the collections and assigns none of them: the spread
\* { ...reachable400, features: ... } builds a new object
SourcesAfterClick(c) == UNCHANGED <<streetsData, reachable400, reachable800>>

(***************************************************************************)
(* Initial states                                                           *)
(***************************************************************************)
\* the script has run: the tile layer is on the map, every fetch is issued
InitMap ==
    /\ fetchState = [f \in Fetches |-> "pending"]
    /\ requests = [u \in Urls |-> Cardinality({ f \in Fetches : Url(f) = u })]
    /\ streetsData = NullCollection
    /\ reachable400 = NullCollection
    /\ reachable800 = NullCollection
    /\ reachableLayer400 = NullLayer
    /\ reachableLayer800 = NullLayer
    /\ mapLayers = << Layer("tiles", << >>) >>
    /\ markers = [k \in CrossingKinds |-> {}]
    /\ viewport = InitialView
    /\ infoName = MarkupText
    /\ infoDesc = MarkupText
    /\ console = {}
    /\ uncaught = {}
    /\ selected = NoCrossing
    /\ lastOp = "other"

NoTabCall == [link |-> 0, tabId |-> 0]

\* the panel as a page leaves every display to the stylesheet
InitPanel ==
    /\ openTabDefined = FALSE
    /\ pageDisplay = [p \in TabPages |-> ""]
    /\ tabActive = [l \in TabPages |-> FALSE]
    /\ lastTab = NoTabCall

Init == InitMap /\ InitPanel

(***************************************************************************)
(* Completion of the fetches                                                *)
(***************************************************************************)
Fulfil(f) ==
    /\ fetchState[f] = "pending"
    /\ fetchState' = [fetchState EXCEPT ![f] = "fulfilled"]
    /\ lastOp' = "other"

\* app.js:23-34
LoadRoads ==
    /\ Fulfil("roads")
    /\ streetsData' = RoadsData
    /\ mapLayers' = AddTo(mapLayers, GeoJSON("roads", RoadsData))
    /\ UNCHANGED <<requests, markers, reachable400, reachable800, reachableLayer400,
                   reachableLayer800, viewport, infoName, infoDesc, console,
                   uncaught, selected, tabVars>>

\* app.js:41-83
LoadCrossingsPopup ==
    /\ Fulfil("crossingsPopup")
    /\ mapLayers' = AddTo(mapLayers, Layer("crossingsPopup", << >>))
    /\ markers' = [markers EXCEPT !["crossingsPopup"] =
                                   MarkersOf("crossingsPopup", Crossings)]
    /\ UNCHANGED <<requests, streetsData, reachable400, reachable800,
                   reachableLayer400, reachableLayer800, viewport, infoName,
                   infoDesc, console, uncaught, selected, tabVars>>

\* app.js:94-97
Load400(data) ==
    /\ Fulfil("reachable400")
    /\ reachable400' = data
    /\ UNCHANGED <<requests, markers, streetsData, reachable800, reachableLayer400,
                   reachableLayer800, mapLayers, viewport, infoName, infoDesc,
                   console, uncaught, selected, tabVars>>

\* app.js:102-105
Load800(data) ==
    /\ Fulfil("reachable800")
    /\ reachable800' = data
    /\ UNCHANGED <<requests, markers, streetsData, reachable400, reachableLayer400,
                   reachableLayer800, mapLayers, viewport, infoName, infoDesc,
                   console, uncaught, selected, tabVars>>

\* app.js:110-185
LoadCrossingsClick ==
    /\ Fulfil("crossingsClick")
    /\ mapLayers' = AddTo(mapLayers, Layer("crossingsClick", << >>))
    /\ markers' = [markers EXCEPT !["crossingsClick"] =
                                   MarkersOf("crossingsClick", Crossings)]
    /\ UNCHANGED <<requests, streetsData, reachable400, reachable800,
                   reachableLayer400, reachableLayer800, viewport, infoName,
                   infoDesc, console, uncaught, selected, tabVars>>

\* a rejected fetch issued again
FetchFailsRetry(f) ==
    /\ fetchState[f] = "pending"
    /\ requests' = [requests EXCEPT ![Url(f)] = @ + 1]
    /\ lastOp' = "other"
    /\ UNCHANGED <<fetchState, markers, streetsData, reachable400, reachable800,
                   reachableLayer400, reachableLayer800, mapLayers, viewport,
                   infoName, infoDesc, console, uncaught, selected, tabVars>>

\* the fetch or r.json() of chain f rejects: a chain with a .catch logs the
\* error, a chain without one is left rejected with no handler
FetchFails(f) ==
    /\ fetchState[f] = "pending"
    /\ fetchState' = [fetchState EXCEPT ![f] = "rejected"]
    /\ lastOp' = "other"
    /\ IF f \in Catches
       THEN console' = console \cup { << "error", f >> } /\ UNCHANGED uncaught
       ELSE uncaught' = uncaught \cup { f } /\ UNCHANGED console
    /\ UNCHANGED <<requests, markers, streetsData, reachable400, reachable800,
                   reachableLayer400, reachableLayer800, mapLayers, viewport,
                   infoName, infoDesc, selected, tabVars>>

(***************************************************************************)
(* Clicks on the crossing markers                                           *)
(***************************************************************************)
\* the click lands on the marker of c of the click layer: app.js:133-183
ClickCrossing(c) ==
    /\ TopCrossingLayer(mapLayers) = "crossingsClick"
    /\ infoName' = PanelName(c)
    /\ infoDesc' = PanelDesc(c)
    /\ selected' = c
    /\ lastOp' = "click"
    /\ IF NotLoaded(reachable400, reachable800)
       THEN \* console.warn and return
            /\ console' = console \cup { WarnNotLoaded }
            /\ UNCHANGED <<reachableLayer400, reachableLayer800, mapLayers,
                           viewport, uncaught>>
       ELSE IF Not(reachable400) \/ Not(reachable800)
       THEN \* null.features: a TypeError leaves the handler after the removal
            /\ mapLayers' = RemovePrevious(mapLayers, reachableLayer400, reachableLayer800)
            /\ uncaught' = uncaught \cup { "click" }
            /\ UNCHANGED <<reachableLayer400, reachableLayer800, viewport, console>>
       ELSE LET filtered400 == Filtered(reachable400, c.name)
                filtered800 == Filtered(reachable800, c.name)
                l800 == GeoJSON("reachable800", filtered800)
                l400 == GeoJSON("reachable400", filtered400)
            IN  /\ mapLayers' = DrawOverlays(
                                  RemovePrevious(mapLayers, reachableLayer400,
                                                 reachableLayer800),
                                  l800, l400)
                /\ reachableLayer800' = l800
                /\ reachableLayer400' = l400
                /\ viewport' = FitViewport(viewport, filtered800, filtered400, l800, l400)
                /\ UNCHANGED <<console, uncaught>>
    /\ SourcesAfterClick(c)
    /\ UNCHANGED <<fetchState, requests, markers, tabVars>>

\* the click lands on the marker of c of the popup layer, which covers the
\* click layer's: no handler of app.js runs (the popup, if one is bound,
\* is Leaflet's)
ClickPopupMarker(c) ==
    /\ TopCrossingLayer(mapLayers) = "crossingsPopup"
    /\ lastOp' = "other"
    /\ UNCHANGED <<fetchState, requests, markers, streetsData, reachable400, reachable800,
                   reachableLayer400, reachableLayer800, mapLayers, viewport,
                   infoName, infoDesc, console, uncaught, selected, tabVars>>

(***************************************************************************)
(* The tabs of the side panel (app.js:189-205)                              *)
(***************************************************************************)
\* the DOMContentLoaded listener assigns window.openTab
DOMContentLoaded ==
    /\ ~openTabDefined
    /\ openTabDefined' = TRUE
    /\ UNCHANGED <<pageDisplay, tabActive, lastTab, mapVars>>

\* the loop that hides the pages left out
ShowPageNoHide(display, tabId) == [display EXCEPT ![tabId] = "block"]

\* for each tab-page: style.display = "none"; then the page tabId = "block"
ShowPage(display, tabId) ==
    [[p \in DOMAIN display |-> "none"] EXCEPT ![tabId] = "block"]

\* for each tab-link: classList.remove("active"); then currentTarget's add
Activate(active, link) ==
    [[l \in DOMAIN active |-> FALSE] EXCEPT ![link] = TRUE]

\* openTab(evt, tabId) with evt.currentTarget the tab-link `link`
OpenTab(link, tabId) ==
    /\ openTabDefined
    /\ pageDisplay' = ShowPage(pageDisplay, tabId)
    /\ tabActive' = Activate(tabActive, link)
    /\ lastTab' = [link |-> link, tabId |-> tabId]
    /\ UNCHANGED <<openTabDefined, mapVars>>

(***************************************************************************)
(* Specifications                                                           *)
(***************************************************************************)
\* the map: the five fetches complete in any order, the user clicks markers
Next ==
    \/ LoadRoads
    \/ LoadCrossingsPopup
    \/ \E data \in Collections("400") : Load400(data)
    \/ \E data \in Collections("800") : Load800(data)
    \/ LoadCrossingsClick
    \/ \E f \in Fetches : FetchFails(f)
    \/ \E c \in Crossings : ClickCrossing(c)
    \/ \E c \in Crossings : ClickPopupMarker(c)

Spec == Init /\ [][Next]_vars

\* the side panel, from any markup of the tab pages and links
InitTabs ==
    /\ InitMap
    /\ openTabDefined = FALSE
    /\ pageDisplay \in [TabPages -> {"", "none", "block"}]
    /\ tabActive \in [TabPages -> BOOLEAN]
    /\ lastTab = NoTabCall

NextTabs ==
    \/ DOMContentLoaded
    \/ \E link \in TabPages, tabId \in TabPages : OpenTab(link, tabId)

SpecTabs == InitTabs /\ [][NextTabs]_vars

\* the filter: every fetch has been fulfilled, in the order of the script,
\* and the reachable-lines files hold any lines
InitFilter ==
    /\ fetchState = [f \in Fetches |-> "fulfilled"]
    /\ requests = [u \in Urls |-> Cardinality({ f \in Fetches : Url(f) = u })]
    /\ streetsData = RoadsData
    /\ reachable400 \in FilterCollections("400")
    /\ reachable800 \in FilterCollections("800")
    /\ reachableLayer400 = NullLayer
    /\ reachableLayer800 = NullLayer
    /\ mapLayers = << Layer("tiles", << >>), GeoJSON("roads", RoadsData),
                      Layer("crossingsPopup", << >>), Layer("crossingsClick", << >>) >>
    /\ markers = [k \in CrossingKinds |-> MarkersOf(k, FilterCrossings)]
    /\ viewport = InitialView
    /\ infoName = MarkupText
    /\ infoDesc = MarkupText
    /\ console = {}
    /\ uncaught = {}
    /\ selected = NoCrossing
    /\ lastOp = "other"
    /\ InitPanel

NextFilter == \E c \in FilterCrossings : ClickCrossing(c)

SpecFilter == InitFilter /\ [][NextFilter]_vars

(***************************************************************************)
(* Vocabulary of the properties                                             *)
(***************************************************************************)
BothLoaded == reachable400 # NullCollection /\ reachable800 # NullCollection

\* the handler has just run for `selected`
JustClicked == lastOp = "click"

\* positions of the layers of a kind on the map
IndicesOf(kind) == { i \in 1..Len(mapLayers) : mapLayers[i].kind = kind }

OverlayIndices == IndicesOf("reachable400") \cup IndicesOf("reachable800")

\* the features of a collection that belong to the crossing called `name`
FeaturesOf(collection, name) ==
    { collection.features[i] : i \in { j \in 1..Len(collection.features) :
                                         collection.features[j].crossing_name = name } }

Range(seq) == { seq[i] : i \in 1..Len(seq) }

\* res is the sub-sequence of src made of the features whose crossing_name
\* is `name`: some strictly increasing map of the positions of res onto the
\* positions of those features carries each feature to itself
IsFilterOf(src, name, res) ==
    LET idx == { i \in 1..Len(src) : src[i].crossing_name = name }
    IN  /\ Len(res) = Cardinality(idx)
        /\ \E pos \in [1..Len(res) -> idx] :
              /\ \A j, k \in 1..Len(res) : j < k => pos[j] < pos[k]
              /\ \A k \in 1..Len(res) : res[k] = src[pos[k]]

(***************************************************************************)
(* C1: the map never holds more than one reachability overlay per band,     *)
(* and every overlay on it holds only features of the crossing the handler  *)
(* last ran for: a click on B after a click on A leaves none of A's.        *)
(***************************************************************************)
C1_NoAccumulation ==
    /\ Cardinality(IndicesOf("reachable400")) <= 1
    /\ Cardinality(IndicesOf("reachable800")) <= 1
    /\ \A i \in OverlayIndices :
          \A f \in Range(mapLayers[i].features) : f.crossing_name = selected.name

\* a click drew a crossing's lines and fitted the view to them, then a click
\* on a crossing with no line replaced both overlays by empty ones
C1_Witness ==
    /\ JustClicked /\ BothLoaded
    /\ viewport.kind = "fitBounds"
    /\ FeaturesOf(reachable400, selected.name) = {}
    /\ FeaturesOf(reachable800, selected.name) = {}
    /\ Len(reachable400.features) > 0
    /\ Cardinality(OverlayIndices) = 2

(***************************************************************************)
(* C2: a click made while reachable400 or reachable800 is not loaded draws  *)
(* no overlay and throws nothing; a click made once both are loaded leaves, *)
(* for each band, one overlay made of the clicked crossing's features.      *)
(***************************************************************************)
C2_LoadClickRace ==
    /\ "click" \notin uncaught
    /\ (JustClicked /\ ~BothLoaded) =>
          /\ OverlayIndices = {}
          /\ reachableLayer400 = NullLayer
          /\ reachableLayer800 = NullLayer
    /\ (JustClicked /\ BothLoaded) =>
          /\ \E i \in IndicesOf("reachable400") :
                Range(mapLayers[i].features) = FeaturesOf(reachable400, selected.name)
          /\ \E i \in IndicesOf("reachable800") :
                Range(mapLayers[i].features) = FeaturesOf(reachable800, selected.name)

\* a click was turned away (the warning is on the console), the loads
\* completed, and a click on a crossing with lines in both bands drew them
C2_Witness ==
    /\ JustClicked /\ BothLoaded
    /\ WarnNotLoaded \in console
    /\ FeaturesOf(reachable400, selected.name) # {}
    /\ FeaturesOf(reachable800, selected.name) # {}
    /\ Len(reachableLayer400.features) > 0

(***************************************************************************)
(* C3: a handler run that finds a collection not loaded sets the panel to   *)
(* the clicked crossing and changes nothing else: not the layers of the     *)
(* map, not reachableLayer400/800, not the collections, not the viewport,   *)
(* and it throws nothing.                                                   *)
(***************************************************************************)
C3_AbortFrame ==
    [][ (lastOp' = "click" /\ ~BothLoaded) =>
          /\ infoName' = << IF selected'.name \in {undefined, ""}
                            THEN "Unnamed crossing" ELSE selected'.name >>
          /\ infoDesc' = << IF selected'.description \in {undefined, ""}
                            THEN "No description available."
                            ELSE selected'.description >>
          /\ mapLayers' = mapLayers
          /\ reachableLayer400' = reachableLayer400
          /\ reachableLayer800' = reachableLayer800
          /\ reachable400' = reachable400
          /\ reachable800' = reachable800
          /\ streetsData' = streetsData
          /\ viewport' = viewport
          /\ uncaught' = uncaught ]_vars

\* the handler ran with the 400m lines loaded and the 800m lines not
C3_Witness ==
    /\ JustClicked
    /\ reachable400 # NullCollection /\ Len(reachable400.features) > 0
    /\ reachable800 = NullCollection
    /\ infoName = << "A" >>
    /\ WarnNotLoaded \in console

(***************************************************************************)
(* C4: the features of each overlay drawn by a click are exactly the        *)
(* features of the band's collection whose crossing_name is the clicked     *)
(* name (exact, case-sensitive), in the order of the collection.            *)
(***************************************************************************)
C4_FilterExact ==
    JustClicked =>
        /\ IsFilterOf(reachable400.features, selected.name, reachableLayer400.features)
        /\ IsFilterOf(reachable800.features, selected.name, reachableLayer800.features)
        /\ \E i \in IndicesOf("reachable400") : mapLayers[i] = reachableLayer400
        /\ \E i \in IndicesOf("reachable800") : mapLayers[i] = reachableLayer800

\* many matches around a line that differs by case only in one band, none
\* in the other among lines that differ by a trailing blank
C4_Witness ==
    /\ JustClicked
    /\ selected.name = "A"
    /\ Len(reachable400.features) = 3
    /\ reachable400.features[1].crossing_name = "A"
    /\ reachable400.features[2].crossing_name = "a"
    /\ reachable400.features[3].crossing_name = "A"
    /\ Len(reachableLayer400.features) = 2
    /\ Len(reachable800.features) > 0
    /\ \A f \in Range(reachable800.features) : f.crossing_name = "A "
    /\ Len(reachableLayer800.features) = 0

(***************************************************************************)
(* C5: on the map the 400m overlay lies above the 800m overlay; a click     *)
(* that draws adds the 800m layer and then the 400m layer, on top of every  *)
(* layer already there.                                                     *)
(***************************************************************************)
C5_NearAboveFar ==
    /\ \A i \in IndicesOf("reachable800"), j \in IndicesOf("reachable400") : i < j
    /\ (JustClicked /\ BothLoaded) =>
          /\ Len(mapLayers) >= 2
          /\ mapLayers[Len(mapLayers) - 1].kind = "reachable800"
          /\ mapLayers[Len(mapLayers)].kind = "reachable400"

\* both bands drawn non-empty, over the roads layer
C5_Witness ==
    /\ JustClicked /\ BothLoaded
    /\ Len(reachableLayer400.features) > 0
    /\ Len(reachableLayer800.features) > 0
    /\ IndicesOf("roads") # {}
    /\ IndicesOf("reachable400") # {}

(***************************************************************************)
(* C6: a handler run with both collections loaded fits the viewport to the  *)
(* clicked crossing's 800m lines if there are any, else to its 400m lines   *)
(* if there are any, else leaves the viewport as it was.                    *)
(***************************************************************************)
C6_ViewportFit ==
    [][ (lastOp' = "click" /\ BothLoaded) =>
          LET far == FeaturesOf(reachable800, selected'.name)
              near == FeaturesOf(reachable400, selected'.name)
          IN  viewport' =
                IF far # {} THEN [kind |-> "fitBounds", bounds |-> { f.geometry : f \in far }]
                ELSE IF near # {}
                     THEN [kind |-> "fitBounds", bounds |-> { f.geometry : f \in near }]
                     ELSE viewport ]_vars

\* no 800m line for the crossing: the view is fitted to its 400m lines
C6_Witness ==
    /\ JustClicked /\ BothLoaded
    /\ FeaturesOf(reachable800, selected.name) = {}
    /\ FeaturesOf(reachable400, selected.name) # {}
    /\ Len(reachable800.features) > 0
    /\ viewport = FitBounds(GetBounds(reachableLayer400))

(***************************************************************************)
(* C7: after a handler run with both collections loaded that finds no line  *)
(* of the crossing in either band, the panel description ends with the      *)
(* notice that no reachable lines were found.                               *)
(***************************************************************************)
NoReachableNotice == "no reachable lines found"

C7_EmptyNotice ==
    (/\ JustClicked /\ BothLoaded
     /\ FeaturesOf(reachable400, selected.name) = {}
     /\ FeaturesOf(reachable800, selected.name) = {})
    => infoDesc[Len(infoDesc)] = NoReachableNotice

(***************************************************************************)
(* C8, as stated: once the handler has run, info-name is the crossing's     *)
(* name, or "Unnamed crossing" if the name is absent, and info-desc is its  *)
(* description, or "No description available." if the description is        *)
(* absent, whatever the state of the loads.                                 *)
(***************************************************************************)
C8_PanelAbsentOnly ==
    selected # NoCrossing =>
        /\ infoName = << IF selected.name = undefined
                         THEN "Unnamed crossing" ELSE selected.name >>
        /\ infoDesc = << IF selected.description = undefined
                         THEN "No description available." ELSE selected.description >>

(***************************************************************************)
(* C8, amended: once the handler has run, info-name is the crossing's name, *)
(* or "Unnamed crossing" if the name is absent or the empty string, and     *)
(* info-desc is its description, or "No description available." if the      *)
(* description is absent or the empty string; the panel holds nothing else. *)
(***************************************************************************)
C8_PanelOverwritten ==
    selected # NoCrossing =>
        /\ infoName = << IF selected.name \in {undefined, ""}
                         THEN "Unnamed crossing" ELSE selected.name >>
        /\ infoDesc = << IF selected.description \in {undefined, ""}
                         THEN "No description available." ELSE selected.description >>

\* the handler ran, before the lines were loaded, for the crossing with no
\* name and an empty description
C8_Witness ==
    /\ JustClicked /\ ~BothLoaded
    /\ selected.description = ""
    /\ selected.name = undefined
    /\ infoName = << "Unnamed crossing" >>
    /\ infoDesc = << "No description available." >>

(***************************************************************************)
(* C9: a load that fails is reported by a logged error, leaves its          *)
(* collection null and does not escape as an unhandled error.               *)
(***************************************************************************)
C9_FailureLogged ==
    \A f \in Fetches :
        fetchState[f] = "rejected" =>
            /\ << "error", f >> \in console
            /\ f \notin uncaught
            /\ (f = "roads" => streetsData = NullCollection)
            /\ (f = "reachable400" => reachable400 = NullCollection)
            /\ (f = "reachable800" => reachable800 = NullCollection)

(***************************************************************************)
(* C10: after openTab(evt, T) called from the control of T, T's page is     *)
(* the one page displayed and T's control the one link that is active.      *)
(***************************************************************************)
\* the tab-link that opens page tabId
ControlOf(tabId) == tabId

C10_OneTab ==
    (lastTab # NoTabCall /\ lastTab.link = ControlOf(lastTab.tabId)) =>
        /\ \A p \in TabPages :
              pageDisplay[p] = IF p = lastTab.tabId THEN "block" ELSE "none"
        /\ \A l \in TabPages : tabActive[l] <=> (l = lastTab.link)
        /\ Cardinality({ p \in TabPages : pageDisplay[p] # "none" }) = 1
        /\ Cardinality({ l \in TabPages : tabActive[l] }) = 1

\* the second tab opened from its own control
C10_Witness ==
    /\ lastTab = [link |-> ControlOf(2), tabId |-> 2]
    /\ pageDisplay[2] = "block"
    /\ tabActive[2]

(***************************************************************************)
(* The page once every fetch has been fulfilled, in the order of the        *)
(* script: clicks on the crossings and tab switches, in any order           *)
(***************************************************************************)
InitLoaded ==
    /\ fetchState = [f \in Fetches |-> "fulfilled"]
    /\ requests = [u \in Urls |-> Cardinality({ f \in Fetches : Url(f) = u })]
    /\ streetsData = RoadsData
    /\ reachable400 \in Collections("400")
    /\ reachable800 \in Collections("800")
    /\ reachableLayer400 = NullLayer
    /\ reachableLayer800 = NullLayer
    /\ mapLayers = << Layer("tiles", << >>), GeoJSON("roads", RoadsData),
                      Layer("crossingsPopup", << >>), Layer("crossingsClick", << >>) >>
    /\ markers = [k \in CrossingKinds |-> MarkersOf(k, Crossings)]
    /\ viewport = InitialView
    /\ infoName = MarkupText
    /\ infoDesc = MarkupText
    /\ console = {}
    /\ uncaught = {}
    /\ selected = NoCrossing
    /\ lastOp = "other"
    /\ InitPanel

NextLoaded ==
    \/ \E c \in Crossings : ClickCrossing(c)
    \/ DOMContentLoaded
    \/ \E link \in TabPages, tabId \in TabPages : OpenTab(link, tabId)

SpecLoaded == InitLoaded /\ [][NextLoaded]_vars

ValidCategories == {"Under_Construction", "Formal_Crossing", "Informal_Crossing"}

AllFulfilled == \A f \in Fetches : fetchState[f] = "fulfilled"

AllMarkers == UNION { markers[k] : k \in CrossingKinds }

(***************************************************************************)
(* C11: every marker drawn for a crossing whose category is none of         *)
(* Under_Construction, Formal_Crossing, Informal_Crossing (or is absent)    *)
(* has a fill colour that is set.                                           *)
(***************************************************************************)
C11_FallbackColour ==
    \A m \in AllMarkers :
        m.feature.category \notin ValidCategories => m.options.fillColor # undefined

(***************************************************************************)
(* C12: for a crossing with a valid category both layers draw the marker    *)
(* with the configured fill colour, and the other fields of the style are   *)
(* the same for every crossing.                                             *)
(***************************************************************************)
C12_ConfiguredColour ==
    \A m \in AllMarkers :
        /\ m.feature.category = "Under_Construction" => m.options.fillColor = "#f7f793"
        /\ m.feature.category = "Formal_Crossing" => m.options.fillColor = "#62b955ff"
        /\ m.feature.category = "Informal_Crossing" => m.options.fillColor = "#82ee71ff"
        /\ m.options.radius = 10
        /\ m.options.color = "black"
        /\ m.options.weight = 2
        /\ m.options.opacity = "0.5"
        /\ m.options.fillOpacity = "1.0"

\* both layers are drawn and hold the markers of the three valid categories
C12_Witness ==
    \A k \in CrossingKinds :
        \A cat \in ValidCategories :
            \E m \in markers[k] : m.feature.category = cat /\ m.options.fillColor # undefined

(***************************************************************************)
(* C13: once every load has completed, whatever the order, a click on a     *)
(* crossing reaches the selection handler: the markers on top are those of  *)
(* the click layer.                                                         *)
(***************************************************************************)
C13_ClickReachesHandler ==
    AllFulfilled => TopCrossingLayer(mapLayers) = "crossingsClick"

(***************************************************************************)
(* C14: no fetch is ever issued again, a rejected load stays rejected and   *)
(* its collection null, and as long as the load of either band has not been *)
(* fulfilled no reachability overlay is on the map or tracked; a handler    *)
(* run in such a state ends at the warning.                                 *)
(***************************************************************************)
BandFetches == {"reachable400", "reachable800"}

C14_NoRetry ==
    /\ [](\A f \in BandFetches :
            fetchState[f] # "fulfilled" =>
                /\ (f = "reachable400" => reachable400 = NullCollection)
                /\ (f = "reachable800" => reachable800 = NullCollection)
                /\ OverlayIndices = {}
                /\ reachableLayer400 = NullLayer
                /\ reachableLayer800 = NullLayer
                /\ (JustClicked => WarnNotLoaded \in console))
    /\ [][ /\ requests' = requests
           /\ \A f \in Fetches :
                 fetchState[f] = "rejected" => fetchState'[f] = "rejected" ]_vars

\* the 400m load failed, the 800m lines were loaded, and the handler ran
C14_Witness ==
    /\ fetchState["reachable400"] = "rejected"
    /\ fetchState["reachable800"] = "fulfilled"
    /\ Len(reachable800.features) > 0
    /\ JustClicked
    /\ FeaturesOf(reachable800, selected.name) # {}
    /\ OverlayIndices = {}

(***************************************************************************)
(* C15: once loaded, reachable400, reachable800 and streetsData keep their  *)
(* features, content and order, through every click and every tab switch.   *)
(***************************************************************************)
C15_SourcesImmutable ==
    [][ /\ (reachable400 # NullCollection => reachable400' = reachable400)
        /\ (reachable800 # NullCollection => reachable800' = reachable800)
        /\ (streetsData # NullCollection => streetsData' = streetsData) ]_vars

\* a click drew a proper part of the 400m collection, after a tab was opened
C15_Witness ==
    /\ JustClicked
    /\ lastTab # NoTabCall
    /\ Len(reachableLayer400.features) > 0
    /\ Len(reachableLayer400.features) < Len(reachable400.features)

(***************************************************************************)
(* C16: every data file is fetched once, and the crossings are drawn as at  *)
(* most one layer.                                                          *)
(***************************************************************************)
C16_OneRetrieval ==
    /\ \A u \in Urls : requests[u] = 1
    /\ Cardinality(IndicesOf("crossingsPopup") \cup IndicesOf("crossingsClick")) <= 1
    /\ Cardinality(IndicesOf("roads")) <= 1

(***************************************************************************)
(* C17: the reachability overlays on the map are exactly the layers that    *)
(* reachableLayer400 and reachableLayer800 refer to, each once, and the two *)
(* references are both null or both set, also when a band is empty.         *)
(***************************************************************************)
C17_OverlaysTracked ==
    /\ { mapLayers[i] : i \in OverlayIndices }
         = { reachableLayer400, reachableLayer800 } \ { NullLayer }
    /\ Cardinality(OverlayIndices)
         = Cardinality({ reachableLayer400, reachableLayer800 } \ { NullLayer })
    /\ (reachableLayer400 = NullLayer) <=> (reachableLayer800 = NullLayer)
    /\ reachableLayer400 # NullLayer => reachableLayer400.kind = "reachable400"
    /\ reachableLayer800 # NullLayer => reachableLayer800.kind = "reachable800"

\* an empty 800m overlay is tracked next to a non-empty 400m overlay
C17_Witness ==
    /\ reachableLayer800 = Layer("reachable800", << >>)
    /\ Len(reachableLayer400.features) > 0
    /\ Len(reachable800.features) > 0
    /\ Cardinality(OverlayIndices) = 2

(***************************************************************************)
(* C18: a loaded collection is never reset to null; once overlays are on    *)
(* the map both collections are loaded, so no later handler run ends at the *)
(* warning, and the overlays are those of the crossing the panel shows.     *)
(***************************************************************************)
C18_LoadedMonotonic ==
    /\ [](OverlayIndices # {} =>
            /\ BothLoaded
            /\ infoName = << IF selected.name \in {undefined, ""}
                             THEN "Unnamed crossing" ELSE selected.name >>
            /\ \A i \in OverlayIndices :
                  Range(mapLayers[i].features)
                    = FeaturesOf(IF mapLayers[i].kind = "reachable400"
                                 THEN reachable400 ELSE reachable800, selected.name))
    /\ [][ /\ (reachable400 # NullCollection => reachable400' # NullCollection)
           /\ (reachable800 # NullCollection => reachable800' # NullCollection)
           /\ (OverlayIndices # {} =>
                 /\ OverlayIndices' # {}
                 /\ (WarnNotLoaded \in console' => WarnNotLoaded \in console)) ]_vars

\* a click was turned away, then clicks drew: the overlays are those of "a"
C18_Witness ==
    /\ WarnNotLoaded \in console
    /\ OverlayIndices # {}
    /\ selected.name = "a"
    /\ infoName = << "a" >>
    /\ Len(reachableLayer800.features) > 0
    /\ lastOp = "other"

====
